---- MODULE Spec2Model ----
(***************************************************************************)
(* Token lifecycle manager of token-management-service: TokenService       *)
(* (src/src/token/token.service.ts) over the Redis sorted sets token_pool  *)
(* and active_tokens (RedisService, src/unnamed/part_000).                 *)
(*                                                                         *)
(* One action is one Redis command together with the synchronous code     *)
(* that runs between the previous await and it.  Every call in flight      *)
(* (a request handler or a timer callback, on any replica) is an element   *)
(* of Instances.  The clock is Date.now() in milliseconds.                 *)
(***************************************************************************)
EXTENDS Integers, FiniteSets, Sequences, TLC

\* ------------------------------------------------------------------ bounds
NumTokens == 2          \* size of the universe of UUIDs uuidv4() can draw
NumInstances == 2       \* calls that can be in flight at once
MaxCount == 2           \* largest count passed to generateTokens
MaxTicks == 2           \* the clock stops after MaxTicks seconds
EnvMaxTokens == 2       \* largest MAX_TOKENS of a deployment's environment
EnvTokenLifetime == 1   \* TOKEN_LIFETIME of the environment
EnvKeepAliveLimit == 2  \* KEEP_ALIVE_LIMIT of the environment
ConcTokens == 2         \* identifiers generated when calls interleave
ConcTicks == 1          \* seconds the clock runs when calls interleave

\* Tokens are the identifiers uuidv4() can produce, numbered in the order it
\* produces them; Unknown is a string that is no identifier of the service,
\* which a caller may pass all the same.
Tokens == 1..NumTokens
Unknown == NumTokens + 1
AnyToken == Tokens \cup {Unknown}
Instances == 1..NumInstances

\* ------------------------------------------------------- the sorted sets
\* A sorted set is a function from members to scores; Absent is the null
\* that ZSCORE answers for a member the set does not hold.
Absent == -1
NoToken == 0

EmptyZset == [t \in AnyToken |-> Absent]

Members(z) == {t \in AnyToken : z[t] # Absent}

zcard(z) == Cardinality(Members(z))

zscore(z, member) == z[member]

zadd(z, score, member) == [z EXCEPT ![member] = score]

zaddBulk(z, score, members) ==
    [t \in AnyToken |-> IF t \in members THEN score ELSE z[t]]

\* A pop that takes any member, whatever its score.
zpopAnyMembers(z) == Members(z)

\* ZPOPMIN removes the member of lowest score; among members of equal score
\* Redis takes the lexicographically first, which for random UUIDs is any of
\* them.  zpopminMembers is the set of members a ZPOPMIN can return.
zpopminMembers(z) == {t \in Members(z) : \A u \in Members(z) : z[t] <= z[u]}

\* A ZRANGE 0 0 in place of ZPOPMIN: the member is read and left in the set.
zpeekmin(z, t) == z

\* The set ZPOPMIN leaves behind when it returns t.
zpopmin(z, t) == [z EXCEPT ![t] = Absent]

\* A range query that ignores its upper limit.
zrangebyscoreNoMax(z, min, max) == {t \in Members(z) : min <= z[t]}

zrangebyscore(z, min, max) == {t \in Members(z) : min <= z[t] /\ z[t] <= max}

zrem(z, members) ==
    [t \in AnyToken |-> IF t \in members THEN Absent ELSE z[t]]

zremCount(z, members) == Cardinality(members \cap Members(z))

zremrangebyscore(z, min, max) == zrem(z, zrangebyscore(z, min, max))

\* ------------------------------------------------------------------ state
VARIABLES
    MAX_TOKENS, TOKEN_LIFETIME, KEEP_ALIVE_LIMIT,  \* configuration fields
    now,                  \* Date.now()
    token_pool,           \* sorted set 'token_pool'
    active_tokens,        \* sorted set 'active_tokens'
    uuids,                \* every identifier uuidv4() has produced
    deleted,              \* the identifiers deleteToken calls that returned named
    pc,                   \* per call in flight: the store call it is at
    token,                \* per call: its token argument or popped token
    count,                \* generateTokens: count
    currentCount,         \* generateTokens: currentCount
    expiredActiveTokens,  \* cleanupTokens: expiredActiveTokens
    result,               \* RedisService.zpopmin: the reply <<member, score>>
    ret,                  \* the call that returned in the last step, if any
    bound                 \* the part of the state space that is explored

config == <<MAX_TOKENS, TOKEN_LIFETIME, KEEP_ALIVE_LIMIT, bound>>
store == <<token_pool, active_tokens>>
locals == <<token, count, currentCount, expiredActiveTokens, result>>
vars == <<MAX_TOKENS, TOKEN_LIFETIME, KEEP_ALIVE_LIMIT, now, token_pool,
          active_tokens, uuids, deleted, pc, token, count, currentCount,
          expiredActiveTokens, result, ret, bound>>

\* What a call returned, observable in the state its return leads to: op
\* and arg name the operation, ok is its boolean result (for
\* assignToken: a token rather than null), tokens the identifiers it
\* returned, threw whether it ended by throwing.  For assignToken, which
\* takes no argument, arg is the score ZPOPMIN reported with the token.
Ret(op, arg, ok, toks, threw) ==
    [op |-> op, arg |-> arg, ok |-> ok, tokens |-> toks, threw |-> threw]

NoRet == Ret("none", 0, FALSE, <<>>, FALSE)

\* The pool deadline computed from TOKEN_LIFETIME.
PoolScoreFromLifetime == now + TOKEN_LIFETIME * 1000

\* A pool score taken from a clock reading one second ahead of the store's.
PoolScoreAhead == now + 1000 + KEEP_ALIVE_LIMIT * 1000

\* Date.now() + this.KEEP_ALIVE_LIMIT * 1000
PoolScore == now + KEEP_ALIVE_LIMIT * 1000

\* The lease deadline computed from KEEP_ALIVE_LIMIT.
ActiveScoreFromKeepAlive == now + KEEP_ALIVE_LIMIT * 1000

\* Date.now() + this.TOKEN_LIFETIME * 1000
ActiveScore == now + TOKEN_LIFETIME * 1000

\* The state after construction, before any call; at most n identifiers
\* are generated and the clock runs for t seconds.
InitWithin(n, t) ==
    /\ bound = [tokens |-> n, ticks |-> t]
    /\ MAX_TOKENS \in 1..EnvMaxTokens
    /\ TOKEN_LIFETIME = EnvTokenLifetime
    /\ KEEP_ALIVE_LIMIT = EnvKeepAliveLimit
    /\ now = 0
    /\ token_pool = EmptyZset
    /\ active_tokens = EmptyZset
    /\ uuids = {}
    /\ deleted = {}
    /\ pc = [i \in Instances |-> "idle"]
    /\ token = [i \in Instances |-> NoToken]
    /\ count = [i \in Instances |-> 0]
    /\ currentCount = [i \in Instances |-> 0]
    /\ expiredActiveTokens = [i \in Instances |-> {}]
    /\ result = [i \in Instances |-> <<>>]
    /\ ret = NoRet

Init == InitWithin(ConcTokens, ConcTicks)

SeqInit == InitWithin(NumTokens, MaxTicks)

AllIdle == \A i \in Instances : pc[i] = "idle"

\* The clock advances, one second at a time.
Tick ==
    /\ now + 1000 <= bound.ticks * 1000
    /\ now' = now + 1000
    /\ ret' = NoRet
    /\ UNCHANGED <<config, store, uuids, deleted, pc, locals>>

\* A call ends: its locals are dropped and its result handed to the caller.
Return(i, r) ==
    /\ pc' = [pc EXCEPT ![i] = "idle"]
    /\ token' = [token EXCEPT ![i] = NoToken]
    /\ count' = [count EXCEPT ![i] = 0]
    /\ currentCount' = [currentCount EXCEPT ![i] = 0]
    /\ expiredActiveTokens' = [expiredActiveTokens EXCEPT ![i] = {}]
    /\ result' = [result EXCEPT ![i] = <<>>]
    /\ ret' = r

\* A call awaits its next store call.
Goto(i, label) ==
    /\ pc' = [pc EXCEPT ![i] = label]
    /\ ret' = NoRet

\* ------------------------------------------------------- generateTokens
\* Array.from({ length: n }, () => uuidv4()): n identifiers never produced
\* before, pairwise distinct.  Identifiers are opaque, so they are numbered in
\* the order uuidv4() produces them.
uuidv4(used) == CHOOSE t \in Tokens \ used : \A u \in Tokens \ used : t <= u

RECURSIVE FreshTokens(_, _)
FreshTokens(n, used) ==
    IF n = 0 THEN <<>>
    ELSE <<uuidv4(used)>> \o FreshTokens(n - 1, used \cup {uuidv4(used)})

Range(s) == {s[k] : k \in 1..Len(s)}

\* The check without the count of the request.
CapacityExceededIgnoringCount(current, n) == current > MAX_TOKENS

\* if (currentCount + count > this.MAX_TOKENS)
CapacityExceeded(current, n) == current + n > MAX_TOKENS

GenerateZcard(i, n) ==
    /\ pc[i] = "idle"
    /\ count' = [count EXCEPT ![i] = n]
    /\ currentCount' = [currentCount EXCEPT ![i] = zcard(token_pool)]
    /\ Goto(i, "generate")
    /\ UNCHANGED <<config, now, store, uuids, deleted, token,
                   expiredActiveTokens, result>>

\* The capacity error raised after the tokens went into the pool.
GenerateThrowAfterInsert(i) ==
    /\ pc[i] = "generate"
    /\ CapacityExceeded(currentCount[i], count[i])
    /\ Cardinality(uuids) + count[i] <= bound.tokens
    /\ uuids' = uuids \cup Range(FreshTokens(count[i], uuids))
    /\ token_pool' =
          zaddBulk(token_pool, PoolScore, Range(FreshTokens(count[i], uuids)))
    /\ Return(i, Ret("generateTokens", count[i], FALSE, <<>>, TRUE))
    /\ UNCHANGED <<config, now, active_tokens, deleted>>

GenerateThrow(i) ==
    /\ pc[i] = "generate"
    /\ CapacityExceeded(currentCount[i], count[i])
    /\ Return(i, Ret("generateTokens", count[i], FALSE, <<>>, TRUE))
    /\ UNCHANGED <<config, now, store, uuids, deleted>>

\* generateTokens inserting whatever the capacity check says.
GenerateZaddBulkUnchecked(i) ==
    /\ pc[i] = "generate"
    /\ Cardinality(uuids) + count[i] <= bound.tokens
    /\ LET tokens == FreshTokens(count[i], uuids) IN
          /\ uuids' = uuids \cup Range(tokens)
          /\ token_pool' = zaddBulk(token_pool, PoolScore, Range(tokens))
          /\ Return(i, Ret("generateTokens", count[i], TRUE, tokens, FALSE))
    /\ UNCHANGED <<config, now, active_tokens, deleted>>

GenerateZaddBulk(i) ==
    /\ pc[i] = "generate"
    /\ ~CapacityExceeded(currentCount[i], count[i])
    /\ Cardinality(uuids) + count[i] <= bound.tokens
    /\ LET tokens == FreshTokens(count[i], uuids) IN
          /\ uuids' = uuids \cup Range(tokens)
          /\ token_pool' = zaddBulk(token_pool, PoolScore, Range(tokens))
          /\ Return(i, Ret("generateTokens", count[i], TRUE, tokens, FALSE))
    /\ UNCHANGED <<config, now, active_tokens, deleted>>

\* ---------------------------------------------------------- assignToken
\* assignToken answering null for a pool of one member.
AssignZpopminNullOnLast(i) ==
    /\ pc[i] = "idle"
    /\ IF Cardinality(Members(token_pool)) <= 1
       THEN /\ Return(i, Ret("assignToken", NoToken, FALSE, <<>>, FALSE))
            /\ UNCHANGED token_pool
       ELSE \E t \in zpopminMembers(token_pool) :
               /\ token_pool' = zpopmin(token_pool, t)
               /\ result' = [result EXCEPT ![i] = <<t, token_pool[t]>>]
               /\ token' = [token EXCEPT ![i] = t]
               /\ Goto(i, "assign")
               /\ UNCHANGED <<count, currentCount, expiredActiveTokens>>
    /\ UNCHANGED <<config, now, active_tokens, uuids, deleted>>

AssignZpopmin(i) ==
    /\ pc[i] = "idle"
    /\ IF Members(token_pool) = {}
       THEN /\ Return(i, Ret("assignToken", NoToken, FALSE, <<>>, FALSE))
            /\ UNCHANGED token_pool
       ELSE \E t \in zpopminMembers(token_pool) :
               /\ token_pool' = zpopmin(token_pool, t)
               /\ result' = [result EXCEPT ![i] = <<t, token_pool[t]>>]
               /\ token' = [token EXCEPT ![i] = t]
               /\ Goto(i, "assign")
               /\ UNCHANGED <<count, currentCount, expiredActiveTokens>>
    /\ UNCHANGED <<config, now, active_tokens, uuids, deleted>>

AssignZadd(i) ==
    /\ pc[i] = "assign"
    /\ active_tokens' = zadd(active_tokens, ActiveScore, token[i])
    /\ Return(i, Ret("assignToken", result[i][2], TRUE, <<token[i]>>, FALSE))
    /\ UNCHANGED <<config, now, token_pool, uuids, deleted>>

\* The service instance running the call stops after the ZPOPMIN has been
\* answered and before the ZADD is sent: the two store calls are separate
\* awaits and nothing undoes the first.  token[i] keeps the token the stopped
\* instance had popped.
AssignStops(i) ==
    /\ pc[i] = "assign"
    /\ pc' = [pc EXCEPT ![i] = "stopped"]
    /\ ret' = NoRet
    /\ UNCHANGED <<config, now, store, uuids, deleted, locals>>

\* ------------------------------------------------------------ keepAlive
\* keepAlive going on to its ZADD into active_tokens whatever ZSCORE said.
KeepAliveZscoreActiveUnchecked(i, t) ==
    /\ pc[i] = "idle"
    /\ token' = [token EXCEPT ![i] = t]
    /\ Goto(i, "keepAliveActive")
    /\ UNCHANGED <<config, now, store, uuids, deleted, count, currentCount,
                   expiredActiveTokens, result>>

\* keepAlive treating a lease whose deadline has passed as no lease.
KeepAliveZscoreActiveChecksExpiry(i, t) ==
    /\ pc[i] = "idle"
    /\ token' = [token EXCEPT ![i] = t]
    /\ IF zscore(active_tokens, t) # Absent /\ zscore(active_tokens, t) > now
       THEN Goto(i, "keepAliveActive")
       ELSE Goto(i, "keepAliveCheckPool")
    /\ UNCHANGED <<config, now, store, uuids, deleted, count, currentCount,
                   expiredActiveTokens, result>>

KeepAliveZscoreActive(i, t) ==
    /\ pc[i] = "idle"
    /\ token' = [token EXCEPT ![i] = t]
    /\ IF zscore(active_tokens, t) # Absent
       THEN Goto(i, "keepAliveActive")
       ELSE Goto(i, "keepAliveCheckPool")
    /\ UNCHANGED <<config, now, store, uuids, deleted, count, currentCount,
                   expiredActiveTokens, result>>

\* keepAlive answering true for an active token without rewriting its score.
KeepAliveActiveNoZadd(i) ==
    /\ pc[i] = "keepAliveActive"
    /\ Return(i, Ret("keepAlive", token[i], TRUE, <<>>, FALSE))
    /\ UNCHANGED <<config, now, store, uuids, deleted>>

KeepAliveZaddActive(i) ==
    /\ pc[i] = "keepAliveActive"
    /\ active_tokens' = zadd(active_tokens, ActiveScore, token[i])
    /\ Return(i, Ret("keepAlive", token[i], TRUE, <<>>, FALSE))
    /\ UNCHANGED <<config, now, token_pool, uuids, deleted>>

\* keepAlive putting a token it found in neither sorted set into the pool.
KeepAliveZscorePoolRevives(i) ==
    /\ pc[i] = "keepAliveCheckPool"
    /\ IF zscore(token_pool, token[i]) = Absent
       THEN /\ token_pool' = zadd(token_pool, PoolScore, token[i])
            /\ Return(i, Ret("keepAlive", token[i], FALSE, <<>>, FALSE))
       ELSE /\ Goto(i, "keepAlivePool")
            /\ UNCHANGED <<locals, token_pool>>
    /\ UNCHANGED <<config, now, active_tokens, uuids, deleted>>

KeepAliveZscorePool(i) ==
    /\ pc[i] = "keepAliveCheckPool"
    /\ IF zscore(token_pool, token[i]) = Absent
       THEN Return(i, Ret("keepAlive", token[i], FALSE, <<>>, FALSE))
       ELSE /\ Goto(i, "keepAlivePool")
            /\ UNCHANGED locals
    /\ UNCHANGED <<config, now, store, uuids, deleted>>

\* keepAlive of a pool token writing the token into active_tokens.
KeepAliveZaddPoolIntoActive(i) ==
    /\ pc[i] = "keepAlivePool"
    /\ active_tokens' = zadd(active_tokens, PoolScore, token[i])
    /\ Return(i, Ret("keepAlive", token[i], TRUE, <<>>, FALSE))
    /\ UNCHANGED <<config, now, token_pool, uuids, deleted>>

KeepAliveZaddPool(i) ==
    /\ pc[i] = "keepAlivePool"
    /\ token_pool' = zadd(token_pool, PoolScore, token[i])
    /\ Return(i, Ret("keepAlive", token[i], TRUE, <<>>, FALSE))
    /\ UNCHANGED <<config, now, active_tokens, uuids, deleted>>

\* --------------------------------------------------------- unblockToken
\* unblockToken going on to its ZADD whatever its ZREM removed.
UnblockZremUnchecked(i, t) ==
    /\ pc[i] = "idle"
    /\ active_tokens' = zrem(active_tokens, {t})
    /\ token' = [token EXCEPT ![i] = t]
    /\ Goto(i, "unblock")
    /\ UNCHANGED <<config, now, token_pool, uuids, deleted, count,
                   currentCount, expiredActiveTokens, result>>

UnblockZrem(i, t) ==
    /\ pc[i] = "idle"
    /\ active_tokens' = zrem(active_tokens, {t})
    /\ IF zremCount(active_tokens, {t}) = 0
       THEN Return(i, Ret("unblockToken", t, FALSE, <<>>, FALSE))
       ELSE /\ token' = [token EXCEPT ![i] = t]
            /\ Goto(i, "unblock")
            /\ UNCHANGED <<count, currentCount, expiredActiveTokens, result>>
    /\ UNCHANGED <<config, now, token_pool, uuids, deleted>>

UnblockZadd(i) ==
    /\ pc[i] = "unblock"
    /\ token_pool' = zadd(token_pool, PoolScore, token[i])
    /\ Return(i, Ret("unblockToken", token[i], TRUE, <<>>, FALSE))
    /\ UNCHANGED <<config, now, active_tokens, uuids, deleted>>

\* ---------------------------------------------------------- deleteToken
DeleteZremActive(i, t) ==
    /\ pc[i] = "idle"
    /\ active_tokens' = zrem(active_tokens, {t})
    /\ token' = [token EXCEPT ![i] = t]
    /\ Goto(i, "delete")
    /\ UNCHANGED <<config, now, token_pool, uuids, deleted, count,
                   currentCount, expiredActiveTokens, result>>

\* deleteToken without its second ZREM.
DeleteOnlyFromActive(i) ==
    /\ pc[i] = "delete"
    /\ deleted' = deleted \cup ({token[i]} \cap uuids)
    /\ Return(i, Ret("deleteToken", token[i], TRUE, <<>>, FALSE))
    /\ UNCHANGED <<config, now, store, uuids>>

\* deleteToken reporting whether its second ZREM removed the token.
DeleteZremPoolReportsRemoved(i) ==
    /\ pc[i] = "delete"
    /\ token_pool' = zrem(token_pool, {token[i]})
    /\ deleted' = deleted \cup ({token[i]} \cap uuids)
    /\ Return(i, Ret("deleteToken", token[i],
                     zremCount(token_pool, {token[i]}) > 0, <<>>, FALSE))
    /\ UNCHANGED <<config, now, active_tokens, uuids>>

DeleteZremPool(i) ==
    /\ pc[i] = "delete"
    /\ token_pool' = zrem(token_pool, {token[i]})
    /\ deleted' = deleted \cup ({token[i]} \cap uuids)
    /\ Return(i, Ret("deleteToken", token[i], TRUE, <<>>, FALSE))
    /\ UNCHANGED <<config, now, active_tokens, uuids>>

\* -------------------------------------------------------- cleanupTokens
CleanupZrangebyscore(i) ==
    /\ pc[i] = "idle"
    /\ expiredActiveTokens' =
          [expiredActiveTokens EXCEPT ![i] = zrangebyscore(active_tokens, 0, now)]
    /\ IF zrangebyscore(active_tokens, 0, now) # {}
       THEN Goto(i, "cleanupRemove")
       ELSE Goto(i, "cleanupPurge")
    /\ UNCHANGED <<config, now, store, uuids, deleted, token, count,
                   currentCount, result>>

\* cleanupTokens without the ZREM of the expired tokens.
CleanupWithoutZrem(i) ==
    /\ pc[i] = "cleanupRemove"
    /\ Goto(i, "cleanupInsert")
    /\ UNCHANGED <<config, now, store, uuids, deleted, locals>>

CleanupZrem(i) ==
    /\ pc[i] = "cleanupRemove"
    /\ active_tokens' = zrem(active_tokens, expiredActiveTokens[i])
    /\ Goto(i, "cleanupInsert")
    /\ UNCHANGED <<config, now, token_pool, uuids, deleted, locals>>

\* cleanupTokens without the insert of the expired tokens into the pool.
CleanupWithoutZaddBulk(i) ==
    /\ pc[i] = "cleanupInsert"
    /\ Goto(i, "cleanupPurge")
    /\ UNCHANGED <<config, now, store, uuids, deleted, locals>>

CleanupZaddBulk(i) ==
    /\ pc[i] = "cleanupInsert"
    /\ token_pool' = zaddBulk(token_pool, PoolScore, expiredActiveTokens[i])
    /\ Goto(i, "cleanupPurge")
    /\ UNCHANGED <<config, now, active_tokens, uuids, deleted, locals>>

CleanupZremrangebyscore(i) ==
    /\ pc[i] = "cleanupPurge"
    /\ token_pool' = zremrangebyscore(token_pool, 0, now)
    /\ Return(i, Ret("cleanupTokens", NoToken, TRUE, <<>>, FALSE))
    /\ UNCHANGED <<config, now, active_tokens, uuids, deleted>>

\* A store call of cleanupTokens is rejected (the store is unreachable).
\* cleanupTokens has no try/catch, so the promise it returned to setInterval
\* is rejected and nothing handles the rejection.  What the runtime does with
\* an unhandled rejection depends on its --unhandled-rejections mode: it
\* either reports it and goes on, or ends the process.
CleanupStoreCallFails(i) ==
    /\ pc[i] \in {"idle", "cleanupRemove", "cleanupInsert", "cleanupPurge"}
    /\ Return(i, Ret("cleanupTokens", NoToken, FALSE, <<>>, TRUE))
    /\ UNCHANGED <<config, now, store, uuids, deleted>>

CleanupRejectionExits(i) ==
    /\ pc[i] \in {"idle", "cleanupRemove", "cleanupInsert", "cleanupPurge"}
    /\ pc' = [j \in Instances |-> "exited"]
    /\ ret' = Ret("cleanupTokens", NoToken, FALSE, <<>>, TRUE)
    /\ UNCHANGED <<config, now, store, uuids, deleted, locals>>

\* ------------------------------------------------------- specifications
\* The tokens callers pass: those generated so far, or a string that is no
\* token of the service.
Args == uuids \cup {Unknown}

\* The later steps of an operation in flight.
Continue(i) ==
    \/ GenerateThrow(i)
    \/ GenerateZaddBulk(i)
    \/ AssignZadd(i)
    \/ KeepAliveZaddActive(i)
    \/ KeepAliveZscorePool(i)
    \/ KeepAliveZaddPool(i)
    \/ UnblockZadd(i)
    \/ DeleteZremPool(i)
    \/ CleanupZrem(i)
    \/ CleanupZaddBulk(i)
    \/ CleanupZremrangebyscore(i)

\* Calls of all instances interleave freely, one store call at a time.
Next ==
    \/ Tick
    \/ \E i \in Instances : \E n \in 1..MaxCount : GenerateZcard(i, n)
    \/ \E i \in Instances : AssignZpopmin(i)
    \/ \E i \in Instances : \E t \in Args : KeepAliveZscoreActive(i, t)
    \/ \E i \in Instances : \E t \in Args : UnblockZrem(i, t)
    \/ \E i \in Instances : \E t \in Args : DeleteZremActive(i, t)
    \/ \E i \in Instances : CleanupZrangebyscore(i)
    \/ \E i \in Instances : Continue(i)

Spec == Init /\ [][Next]_vars

\* Operations run one at a time: a call starts only when none is in flight.
SeqNext ==
    \/ Tick
    \/ AllIdle /\ \E n \in 1..MaxCount : GenerateZcard(1, n)
    \/ AllIdle /\ AssignZpopmin(1)
    \/ AllIdle /\ \E t \in Args : KeepAliveZscoreActive(1, t)
    \/ AllIdle /\ \E t \in Args : UnblockZrem(1, t)
    \/ AllIdle /\ \E t \in Args : DeleteZremActive(1, t)
    \/ AllIdle /\ CleanupZrangebyscore(1)
    \/ Continue(1)

SeqSpec == SeqInit /\ [][SeqNext]_vars

\* Only generateTokens calls, one at a time.
IssueNext ==
    \/ Tick
    \/ AllIdle /\ \E n \in 1..MaxCount : GenerateZcard(1, n)
    \/ GenerateThrow(1)
    \/ GenerateZaddBulk(1)

IssueSpec == SeqInit /\ [][IssueNext]_vars

\* Only generateTokens and assignToken calls, one at a time.
IssueLeaseNext ==
    \/ Tick
    \/ AllIdle /\ \E n \in 1..MaxCount : GenerateZcard(1, n)
    \/ GenerateThrow(1)
    \/ GenerateZaddBulk(1)
    \/ AllIdle /\ AssignZpopmin(1)
    \/ AssignZadd(1)

IssueLeaseSpec == SeqInit /\ [][IssueLeaseNext]_vars

\* Operations run one at a time, except that assignToken calls overlap with
\* one another.
OnlyAssigning == \A i \in Instances : pc[i] \in {"idle", "assign"}

LeaseRaceNext ==
    \/ Tick
    \/ AllIdle /\ \E n \in 1..MaxCount : GenerateZcard(1, n)
    \/ \E i \in Instances : OnlyAssigning /\ AssignZpopmin(i)
    \/ AllIdle /\ \E t \in Args : KeepAliveZscoreActive(1, t)
    \/ AllIdle /\ \E t \in Args : UnblockZrem(1, t)
    \/ AllIdle /\ \E t \in Args : DeleteZremActive(1, t)
    \/ AllIdle /\ CleanupZrangebyscore(1)
    \/ \E i \in Instances : Continue(i)

LeaseRaceSpec == SeqInit /\ [][LeaseRaceNext]_vars

\* The timer of onModuleInit runs cleanupTokens as call 2 while call 1 runs
\* generateTokens and assignToken; no keepAlive, unblockToken or deleteToken
\* is called.  setInterval fires the callback again and again, and its store
\* calls are answered.
Timer == NumInstances

ReclaimNext ==
    \/ Tick
    \/ \E n \in 1..MaxCount : GenerateZcard(1, n)
    \/ GenerateThrow(1)
    \/ GenerateZaddBulk(1)
    \/ AssignZpopmin(1)
    \/ AssignZadd(1)
    \/ CleanupZrangebyscore(Timer)
    \/ CleanupZrem(Timer)
    \/ CleanupZaddBulk(Timer)
    \/ CleanupZremrangebyscore(Timer)

ReclaimFairness ==
    /\ WF_vars(CleanupZrangebyscore(Timer))
    /\ WF_vars(CleanupZrem(Timer))
    /\ WF_vars(CleanupZaddBulk(Timer))
    /\ WF_vars(CleanupZremrangebyscore(Timer))

ReclaimSpec == SeqInit /\ [][ReclaimNext]_vars /\ ReclaimFairness

\* The service started with no configuration overrides: the second
\* arguments of configService.get in the constructor.
DefaultMaxTokens == 10000
DefaultTokenLifetime == 60 * 1 * 1000
DefaultKeepAliveLimit == 60 * 5 * 1000

DefaultInit ==
    /\ bound = [tokens |-> NumTokens, ticks |-> MaxTicks]
    /\ MAX_TOKENS = DefaultMaxTokens
    /\ TOKEN_LIFETIME = DefaultTokenLifetime
    /\ KEEP_ALIVE_LIMIT = DefaultKeepAliveLimit
    /\ now = 0
    /\ token_pool = EmptyZset
    /\ active_tokens = EmptyZset
    /\ uuids = {}
    /\ deleted = {}
    /\ pc = [i \in Instances |-> "idle"]
    /\ token = [i \in Instances |-> NoToken]
    /\ count = [i \in Instances |-> 0]
    /\ currentCount = [i \in Instances |-> 0]
    /\ expiredActiveTokens = [i \in Instances |-> {}]
    /\ result = [i \in Instances |-> <<>>]
    /\ ret = NoRet

\* Operations run one at a time under the default configuration.  Within
\* the identifiers and seconds explored the capacity error and the recycling
\* of an expired lease cannot occur, so their steps are left out.
DefaultNext ==
    \/ Tick
    \/ AllIdle /\ \E n \in 1..MaxCount : GenerateZcard(1, n)
    \/ GenerateZaddBulk(1)
    \/ AllIdle /\ AssignZpopmin(1)
    \/ AssignZadd(1)
    \/ AllIdle /\ \E t \in Args : KeepAliveZscoreActive(1, t)
    \/ KeepAliveZaddActive(1)
    \/ KeepAliveZscorePool(1)
    \/ KeepAliveZaddPool(1)
    \/ AllIdle /\ \E t \in Args : UnblockZrem(1, t)
    \/ UnblockZadd(1)
    \/ AllIdle /\ \E t \in Args : DeleteZremActive(1, t)
    \/ DeleteZremPool(1)
    \/ AllIdle /\ CleanupZrangebyscore(1)
    \/ CleanupZremrangebyscore(1)

DefaultSpec == DefaultInit /\ [][DefaultNext]_vars

\* Operations run one at a time in a deployment whose KEEP_ALIVE_LIMIT may
\* be as short as one second, so that a keep-alive duration can elapse
\* between two store calls of one cleanupTokens.
SweepInit ==
    /\ bound = [tokens |-> NumTokens, ticks |-> MaxTicks]
    /\ MAX_TOKENS \in 1..EnvMaxTokens
    /\ TOKEN_LIFETIME = EnvTokenLifetime
    /\ KEEP_ALIVE_LIMIT \in 1..EnvKeepAliveLimit
    /\ now = 0
    /\ token_pool = EmptyZset
    /\ active_tokens = EmptyZset
    /\ uuids = {}
    /\ deleted = {}
    /\ pc = [i \in Instances |-> "idle"]
    /\ token = [i \in Instances |-> NoToken]
    /\ count = [i \in Instances |-> 0]
    /\ currentCount = [i \in Instances |-> 0]
    /\ expiredActiveTokens = [i \in Instances |-> {}]
    /\ result = [i \in Instances |-> <<>>]
    /\ ret = NoRet

SweepSpec == SweepInit /\ [][SeqNext]_vars

\* The timers of several replicas run cleanupTokens at once, beside
\* generateTokens and assignToken calls, all interleaving freely.
SweepRaceNext ==
    \/ Tick
    \/ \E i \in Instances : \E n \in 1..MaxCount : GenerateZcard(i, n)
    \/ \E i \in Instances : GenerateThrow(i)
    \/ \E i \in Instances : GenerateZaddBulk(i)
    \/ \E i \in Instances : AssignZpopmin(i)
    \/ \E i \in Instances : AssignZadd(i)
    \/ \E i \in Instances : CleanupZrangebyscore(i)
    \/ \E i \in Instances : CleanupZrem(i)
    \/ \E i \in Instances : CleanupZaddBulk(i)
    \/ \E i \in Instances : CleanupZremrangebyscore(i)

SweepRaceSpec == SeqInit /\ [][SweepRaceNext]_vars

\* Operations run one at a time, and the store may reject any store call of
\* cleanupTokens.
FailNext ==
    \/ SeqNext
    \/ CleanupStoreCallFails(1)
    \/ CleanupRejectionExits(1)

FailSpec == SeqInit /\ [][FailNext]_vars

\* Only generateTokens calls, interleaving freely.
IssueRaceNext ==
    \/ Tick
    \/ \E i \in Instances : \E n \in 1..MaxCount : GenerateZcard(i, n)
    \/ \E i \in Instances : GenerateThrow(i)
    \/ \E i \in Instances : GenerateZaddBulk(i)

IssueRaceSpec == SeqInit /\ [][IssueRaceNext]_vars

\* Calls of all instances interleave freely, and an instance may stop in the
\* middle of assignToken while the other instances go on.
CrashNext ==
    \/ Next
    \/ \E i \in Instances : AssignStops(i)

CrashSpec == Init /\ [][CrashNext]_vars

\* ----------------------------------------------------------------- claims
InPool(t) == t \in Members(token_pool)
InActive(t) == t \in Members(active_tokens)
InStore(t) == InPool(t) \/ InActive(t)

\* A token an operation has taken out of one sorted set and not yet put into
\* the other.
InFlight(t) ==
    \E i \in Instances :
        \/ pc[i] \in {"assign", "unblock"} /\ token[i] = t
        \/ pc[i] = "cleanupInsert" /\ t \in expiredActiveTokens[i]

Held(t) == InStore(t) \/ InFlight(t)

\* C1: under any interleaving of the store calls of several instances, no
\* token is a member of both token_pool and active_tokens.
C1_MutualExclusion == Members(token_pool) \cap Members(active_tokens) = {}

\* C2: with operations run one at a time, every token is a member of at most
\* one of token_pool and active_tokens.
C2_AtMostOneSequential == \A t \in AnyToken : ~(InPool(t) /\ InActive(t))

\* C2 witness: unblockToken has just moved a token back to the pool while
\* another token is still active.
C2_Witness ==
    /\ ret.op = "unblockToken" /\ ret.ok
    /\ InPool(ret.arg)
    /\ Members(active_tokens) # {}

\* C3: two assignToken calls that overlap, with no other operation in
\* progress, never hold the same popped token.
C3_LeasesDiffer ==
    \A i, j \in Instances :
        (i # j /\ pc[i] = "assign" /\ pc[j] = "assign") => token[i] # token[j]

\* C3 witness: two assignToken calls are in flight, each with a popped token.
C3_Witness == \A i \in Instances : pc[i] = "assign" /\ token[i] \in uuids

\* C4: after deleteToken(t) has returned, with operations run one at a time,
\* assignToken never returns t and keepAlive(t) and unblockToken(t) return
\* false.
C4_RevokeFinal ==
    [][\A t \in deleted :
          /\ (ret'.op = "assignToken" /\ ret'.ok) => ret'.tokens[1] # t
          /\ (ret'.op \in {"keepAlive", "unblockToken"} /\ ret'.arg = t)
                => ~ret'.ok]_vars

\* C4 witness: keepAlive of a generated token returns false after a
\* deleteToken of that token has returned.
C4_Witness ==
    /\ ret.op = "keepAlive" /\ ~ret.ok
    /\ ret.arg \in deleted

\* C5: once deleteToken(t) has returned, t is in neither sorted set in every
\* later state, whatever calls were in flight.
C5_HardDeletion == \A t \in deleted : ~InPool(t) /\ ~InActive(t)

\* C6 as stated: with operations run one at a time and none in flight, every
\* generated token that was never deleted is in the pool or in active_tokens.
C6_DestroyedOnlyByRevoke ==
    AllIdle => \A t \in uuids \ deleted : InStore(t)

\* C6 amended: with operations run one at a time, a generated token stops
\* being held (in a sorted set, or in transit between them inside one
\* operation) only in a store call of deleteToken(t), or in the pool purge of
\* cleanupTokens when its pool deadline has passed.
C6_LeavesByRevokeOrPurge ==
    [][\A t \in uuids :
          (Held(t) /\ ~Held(t)') =>
             \E i \in Instances :
                \/ pc'[i] = "delete" /\ token'[i] = t
                \/ pc[i] = "delete" /\ token[i] = t
                \/ /\ pc[i] = "cleanupPurge" /\ pc'[i] = "idle"
                   /\ token_pool[t] # Absent /\ token_pool[t] <= now]_vars

\* C6 witness: cleanupTokens has returned and a generated, never deleted
\* token is in neither sorted set.
C6_Witness ==
    /\ ret.op = "cleanupTokens"
    /\ \E t \in uuids \ deleted : ~InStore(t)

\* C7: with operations run one at a time, the pool never holds more than
\* MAX_TOKENS members.
C7_PoolWithinCapacity == zcard(token_pool) <= MAX_TOKENS

\* C8: after any sequence of generateTokens calls run one at a time from an
\* empty store, the pool holds at most MAX_TOKENS members.
C8_IssueOnlyWithinCapacity == Cardinality(Members(token_pool)) <= MAX_TOKENS

\* C8 witness: a generateTokens call has failed on a pool filled to
\* MAX_TOKENS by earlier calls.
C8_Witness ==
    /\ ret.op = "generateTokens" /\ ret.threw
    /\ Cardinality(Members(token_pool)) = MAX_TOKENS

\* C9: generateTokens(count) called with pool size + count > MAX_TOKENS
\* throws and leaves both sorted sets as they were, and generates nothing.
C9_IssueFailsWithoutMutation ==
    [][\A i \in Instances :
          ( /\ pc[i] = "generate" /\ pc'[i] = "idle"
            /\ Cardinality(Members(token_pool)) + count[i] > MAX_TOKENS )
          => /\ ret'.op = "generateTokens" /\ ret'.threw
             /\ token_pool' = token_pool
             /\ active_tokens' = active_tokens
             /\ uuids' = uuids]_vars

\* C9 witness: with MAX_TOKENS = 1 and one token in the pool,
\* generateTokens(1) has thrown.
C9_Witness ==
    /\ MAX_TOKENS = 1
    /\ ret.op = "generateTokens" /\ ret.threw /\ ret.arg = 1
    /\ Cardinality(Members(token_pool)) = 1

\* C10: a successful generateTokens(count) returns count pairwise distinct
\* identifiers that were in neither sorted set, puts exactly them into the
\* pool with score now + KEEP_ALIVE_LIMIT * 1000, and changes nothing else.
C10_IssueEffect ==
    [][\A i \in Instances :
          ( /\ pc[i] = "generate" /\ pc'[i] = "idle"
            /\ ret'.op = "generateTokens" /\ ~ret'.threw )
          => LET new == {ret'.tokens[k] : k \in 1..Len(ret'.tokens)} IN
             /\ Len(ret'.tokens) = count[i]
             /\ Cardinality(new) = count[i]
             /\ \A t \in new : ~InPool(t) /\ ~InActive(t)
             /\ \A t \in new : token_pool'[t] = now + KEEP_ALIVE_LIMIT * 1000
             /\ \A t \in AnyToken \ new : token_pool'[t] = token_pool[t]
             /\ active_tokens' = active_tokens]_vars

\* C10 witness: generateTokens has returned a new identifier, now in the
\* pool, while an earlier token is in the pool or in active_tokens.
C10_Witness ==
    /\ ret.op = "generateTokens" /\ ~ret.threw
    /\ \A k \in 1..Len(ret.tokens) : InPool(ret.tokens[k])
    /\ \E u \in uuids \ Range(ret.tokens) : InStore(u)

\* C11: with operations run one at a time, every assignToken on a non-empty
\* pool takes a member whose pool score is minimal among the members of the
\* pool at the pop, and when the call that returned just before was an
\* assignToken too, the score of the member taken now is not below the score
\* of the member taken then.
C11_LeaseOrdering ==
    [][\A i \in Instances :
          (pc[i] = "idle" /\ pc'[i] = "assign") =>
             /\ token_pool[token'[i]] # Absent
             /\ \A u \in Members(token_pool) :
                   token_pool[token'[i]] <= token_pool[u]
             /\ (ret.op = "assignToken" /\ ret.ok)
                   => token_pool[token'[i]] >= ret.arg]_vars

\* C11 witness: an assignToken has popped a token while the token of an
\* earlier assignToken, leased at the same clock value, is in active_tokens.
C11_Witness ==
    /\ pc[1] = "assign"
    /\ result[1] = <<token[1], KEEP_ALIVE_LIMIT * 1000 + 1000>>
    /\ \E u \in Members(active_tokens) :
          u # token[1] /\ active_tokens[u] = now + TOKEN_LIFETIME * 1000

\* C12: a successful assignToken takes exactly one token out of the pool and
\* puts exactly it into active_tokens with score now + TOKEN_LIFETIME * 1000,
\* leaving every other entry as it was; so after generateTokens and
\* assignToken calls alone, the generated tokens are split between the pool
\* and active_tokens, and an assignToken returns null only when all of them
\* are in active_tokens.
C12_LeaseMovesOne ==
    /\ [][\A i \in Instances :
            /\ (pc[i] = "idle" /\ pc'[i] = "assign") =>
                  /\ InPool(token'[i])
                  /\ \A u \in AnyToken :
                        token_pool'[u] =
                           IF u = token'[i] THEN Absent ELSE token_pool[u]
                  /\ active_tokens' = active_tokens
            /\ (pc[i] = "assign" /\ pc'[i] = "idle") =>
                  /\ ret'.op = "assignToken" /\ ret'.ok
                  /\ ret'.tokens = <<token[i]>>
                  /\ \A u \in AnyToken :
                        active_tokens'[u] =
                           IF u = token[i] THEN now + TOKEN_LIFETIME * 1000
                           ELSE active_tokens[u]
                  /\ token_pool' = token_pool]_vars
    /\ [](AllIdle =>
            /\ Members(token_pool) \cap Members(active_tokens) = {}
            /\ Members(token_pool) \cup Members(active_tokens) = uuids
            /\ (ret.op = "assignToken" /\ ~ret.ok)
                  => Members(active_tokens) = uuids)

\* C12 witness: after generateTokens(n) with n > 1, n assignToken calls have
\* emptied the pool and a further assignToken has returned null.
C12_Witness ==
    /\ ret.op = "assignToken" /\ ~ret.ok
    /\ Cardinality(uuids) > 1
    /\ Members(active_tokens) = uuids
    /\ Members(token_pool) = {}

\* C13: under any interleaving, assignToken returns null exactly when the
\* pool has no member at its ZPOPMIN: a null return happens on an empty pool,
\* raises nothing and changes neither sorted set; a ZPOPMIN on a pool with a
\* member takes one, and the call then returns that token.
C13_EmptyIffPoolEmpty ==
    [][/\ (ret'.op = "assignToken" /\ ~ret'.ok) =>
             /\ Members(token_pool) = {}
             /\ ~ret'.threw
             /\ token_pool' = token_pool
             /\ active_tokens' = active_tokens
       /\ \A i \in Instances :
             /\ (pc[i] = "idle" /\ pc'[i] = "assign")
                   => Members(token_pool) # {}
             /\ (pc[i] = "assign" /\ pc'[i] = "idle")
                   => ret'.op = "assignToken" /\ ret'.ok /\ ~ret'.threw]_vars

\* C13 witness: assignToken has returned null on a pool that earlier
\* assignToken calls emptied.
C13_Witness ==
    /\ ret.op = "assignToken" /\ ~ret.ok
    /\ Members(token_pool) = {}
    /\ Members(active_tokens) # {}

\* C14: with operations run one at a time, the token an assignToken takes
\* has, at the ZPOPMIN, a pool score strictly greater than now.
C14_NoExpiredLease ==
    [][\A i \in Instances :
          (pc[i] = "idle" /\ pc'[i] = "assign")
             => token_pool[token'[i]] > now]_vars

\* C15: with operations run one at a time, keepAlive(t) finds t in
\* active_tokens exactly when t is a member, and then returns true, leaves t
\* in active_tokens and out of the pool, sets its score to
\* now + TOKEN_LIFETIME * 1000, which is not below the score t had, and
\* changes no other entry; this holds for every such call, repeated or not.
C15_RenewLeased ==
    [][\A i \in Instances :
          /\ (pc[i] = "idle" /\ pc'[i] = "keepAliveActive")
                => InActive(token'[i])
          /\ (pc[i] = "idle" /\ pc'[i] = "keepAliveCheckPool")
                => ~InActive(token'[i])
          /\ (pc[i] = "keepAliveActive" /\ pc'[i] = "idle") =>
                /\ InActive(token[i])
                /\ ret'.op = "keepAlive" /\ ret'.arg = token[i] /\ ret'.ok
                /\ active_tokens'[token[i]] = now + TOKEN_LIFETIME * 1000
                /\ active_tokens'[token[i]] >= active_tokens[token[i]]
                /\ token_pool'[token[i]] = Absent
                /\ token_pool' = token_pool
                /\ \A u \in AnyToken \ {token[i]} :
                      active_tokens'[u] = active_tokens[u]]_vars

\* C15 witness: after more than one lease duration on the clock, keepAlive
\* has returned true for a token of active_tokens, which has its new deadline.
C15_Witness ==
    /\ ret.op = "keepAlive" /\ ret.ok
    /\ InActive(ret.arg) /\ ~InPool(ret.arg)
    /\ active_tokens[ret.arg] = now + TOKEN_LIFETIME * 1000
    /\ now >= (TOKEN_LIFETIME + 1) * 1000

\* C16: with operations run one at a time, keepAlive(t) of a token that is
\* in the pool and not in active_tokens returns true, sets t's pool score to
\* now + KEEP_ALIVE_LIMIT * 1000, leaves t in the pool, does not put t into
\* active_tokens and changes no other entry.
C16_RenewPooled ==
    [][\A i \in Instances :
          /\ (pc[i] = "keepAliveCheckPool" /\ pc'[i] = "keepAlivePool")
                => InPool(token[i]) /\ ~InActive(token[i])
          /\ (pc[i] = "keepAliveCheckPool" /\ pc'[i] = "idle")
                => ~InPool(token[i])
          /\ (pc[i] = "keepAlivePool" /\ pc'[i] = "idle") =>
                /\ InPool(token[i]) /\ ~InActive(token[i])
                /\ ret'.op = "keepAlive" /\ ret'.arg = token[i] /\ ret'.ok
                /\ token_pool'[token[i]] = now + KEEP_ALIVE_LIMIT * 1000
                /\ \A u \in AnyToken \ {token[i]} :
                      token_pool'[u] = token_pool[u]
                /\ active_tokens' = active_tokens]_vars

\* C16 witness: keepAlive has returned true for a pool token, whose pool
\* deadline is now later than that of another pool token.
C16_Witness ==
    /\ ret.op = "keepAlive" /\ ret.ok
    /\ InPool(ret.arg) /\ ~InActive(ret.arg)
    /\ token_pool[ret.arg] = now + KEEP_ALIVE_LIMIT * 1000
    /\ \E u \in Members(token_pool) : token_pool[u] < token_pool[ret.arg]

\* C17: with operations run one at a time, keepAlive(t) of a token that is
\* in neither sorted set (never generated, deleted, or purged) returns false,
\* and a keepAlive that returns false leaves both sorted sets as they were:
\* no entry for t is created.
C17_RenewAbsent ==
    [][/\ (ret'.op = "keepAlive" /\ ~ret'.ok) =>
             /\ ~InStore(ret'.arg)
             /\ token_pool' = token_pool
             /\ active_tokens' = active_tokens
       /\ \A i \in Instances :
             /\ (pc[i] = "idle" /\ pc'[i] = "keepAliveActive")
                   => InStore(token'[i])
             /\ ( /\ pc[i] \in {"idle", "keepAliveCheckPool"}
                  /\ pc'[i] \in {"keepAliveActive", "keepAliveCheckPool",
                                 "keepAlivePool"} )
                   => /\ token_pool' = token_pool
                      /\ active_tokens' = active_tokens
             /\ ( /\ pc[i] = "keepAliveCheckPool" /\ pc'[i] # pc[i]
                  /\ ~InStore(token[i]) )
                   => /\ ret'.op = "keepAlive" /\ ret'.arg = token[i]
                      /\ ~ret'.ok /\ ~ret'.threw]_vars

\* C17 witness: keepAlive has returned false for a generated token that no
\* deleteToken named and that the sweep has purged from the pool.
C17_Witness ==
    /\ ret.op = "keepAlive" /\ ~ret.ok
    /\ ret.arg \in uuids \ deleted
    /\ ~InStore(ret.arg)

\* C18: with operations run one at a time, unblockToken(t) returns true
\* exactly when t is in active_tokens at its ZREM; it then removes only t
\* from active_tokens and puts only t into the pool with score
\* now + KEEP_ALIVE_LIMIT * 1000; a false return changes neither sorted set;
\* and an unblockToken(t) directly after one that returned true for t does
\* not find t in active_tokens.
C18_Release ==
    [][/\ (ret'.op = "unblockToken" /\ ~ret'.ok) =>
             /\ ~InActive(ret'.arg)
             /\ token_pool' = token_pool
             /\ active_tokens' = active_tokens
       /\ \A i \in Instances :
             /\ (pc[i] = "idle" /\ pc'[i] = "unblock") =>
                   /\ InActive(token'[i])
                   /\ \A u \in AnyToken :
                         active_tokens'[u] =
                            IF u = token'[i] THEN Absent ELSE active_tokens[u]
                   /\ token_pool' = token_pool
                   /\ ~(ret.op = "unblockToken" /\ ret.ok
                           /\ ret.arg = token'[i])
             /\ (pc[i] = "unblock" /\ pc'[i] = "idle") =>
                   /\ ret'.op = "unblockToken" /\ ret'.arg = token[i]
                   /\ ret'.ok
                   /\ \A u \in AnyToken :
                         token_pool'[u] =
                            IF u = token[i]
                            THEN now + KEEP_ALIVE_LIMIT * 1000
                            ELSE token_pool[u]
                   /\ active_tokens' = active_tokens
                   /\ active_tokens'[token[i]] = Absent]_vars

\* C18 witness: unblockToken has returned true for a token, which is out
\* of active_tokens and in the pool with a deadline later than that of
\* another pool token.
C18_Witness ==
    /\ ret.op = "unblockToken" /\ ret.ok
    /\ InPool(ret.arg) /\ ~InActive(ret.arg)
    /\ token_pool[ret.arg] = now + KEEP_ALIVE_LIMIT * 1000
    /\ \E u \in Members(token_pool) : token_pool[u] < token_pool[ret.arg]

C21_DefaultDeadlines ==
    [][\A i \in Instances :
          /\ (pc[i] = "assign" /\ pc'[i] = "idle")
                => active_tokens'[token[i]] = now + 60000
          /\ (pc[i] = "generate" /\ pc'[i] = "idle" /\ ret'.ok)
                => \A k \in 1..Len(ret'.tokens) :
                      token_pool'[ret'.tokens[k]] = now + 300000
          /\ (pc[i] = "unblock" /\ pc'[i] = "idle")
                => token_pool'[token[i]] = now + 300000]_vars

\* C22: with operations run one at a time, the members of the pool and of
\* active_tokens together number at most MAX_TOKENS.
C22_TotalWithinMaxTokens ==
    zcard(token_pool) + zcard(active_tokens) <= MAX_TOKENS

\* C23: a token that unblockToken has just handed back is not available at
\* once: the assignToken that starts right after unblockToken(t) returned
\* true, at the same clock value, does not take t.
C23_UnblockDelaysLease ==
    [][\A i \in Instances :
          ( /\ ret.op = "unblockToken" /\ ret.ok
            /\ pc[i] = "idle" /\ pc'[i] = "assign" )
          => token'[i] # ret.arg]_vars

\* C24: a cleanupTokens run with no other operation in progress takes as
\* expired exactly the members of active_tokens with score <= now, removes
\* them from active_tokens, puts each into the pool with score
\* now + KEEP_ALIVE_LIMIT * 1000, each of them is still in the pool when the
\* sweep returns, and a member of active_tokens with score > now keeps its
\* entry in every step of the sweep.
C24_SweepRecycles ==
    [][\A i \in Instances :
          /\ (pc[i] = "idle" /\ pc'[i] \in {"cleanupRemove", "cleanupPurge"})
                => /\ expiredActiveTokens'[i] =
                         {t \in AnyToken :
                             InActive(t) /\ active_tokens[t] <= now}
                   /\ active_tokens' = active_tokens
                   /\ token_pool' = token_pool
          /\ (pc[i] = "cleanupRemove" /\ pc'[i] = "cleanupInsert")
                => /\ \A t \in AnyToken :
                         active_tokens'[t] =
                            IF t \in expiredActiveTokens[i] THEN Absent
                            ELSE active_tokens[t]
                   /\ token_pool' = token_pool
          /\ (pc[i] = "cleanupInsert" /\ pc'[i] = "cleanupPurge")
                => /\ \A t \in expiredActiveTokens[i] :
                         token_pool'[t] = now + KEEP_ALIVE_LIMIT * 1000
                   /\ active_tokens' = active_tokens
          /\ (pc[i] = "cleanupPurge" /\ pc'[i] = "idle")
                => /\ \A t \in expiredActiveTokens[i] : InPool(t)'
                   /\ active_tokens' = active_tokens
          /\ (pc[i] \in {"cleanupRemove", "cleanupInsert", "cleanupPurge"}
                \/ pc'[i] \in {"cleanupRemove", "cleanupInsert",
                               "cleanupPurge"})
                => \A t \in AnyToken :
                      (InActive(t) /\ active_tokens[t] > now)
                         => active_tokens'[t] = active_tokens[t]]_vars

\* C25: a cleanupTokens run with no other operation in progress removes from
\* the pool, in its last store call, every entry with score <= now, which
\* then is in neither sorted set; every entry it removes was in the pool
\* before the sweep (it is none of the tokens the sweep inserted); entries
\* with score > now keep their score; and the earlier store calls of the
\* sweep change no entry the pool already had.
C25_SweepPurges ==
    [][\A i \in Instances :
          /\ (pc[i] = "cleanupPurge" /\ pc'[i] = "idle") =>
                \A t \in AnyToken :
                   /\ (InPool(t) /\ token_pool[t] <= now)
                         => ~InPool(t)' /\ ~InActive(t)'
                   /\ (InPool(t) /\ token_pool[t] > now)
                         => token_pool'[t] = token_pool[t]
                   /\ (InPool(t) /\ ~InPool(t)')
                         => t \notin expiredActiveTokens[i]
          /\ ( /\ pc[i] \in {"idle", "cleanupRemove", "cleanupInsert"}
               /\ pc'[i] \in {"cleanupRemove", "cleanupInsert",
                              "cleanupPurge"} )
                => \A t \in AnyToken :
                      InPool(t) => token_pool'[t] = token_pool[t]]_vars

\* C26: when cleanupTokens runs of several replicas race with each other and
\* with assignToken calls, no token is in the pool and in active_tokens at
\* once, and the ZREM of a sweep takes no token out of active_tokens whose
\* lease deadline is in the future (a token leased again since the sweep
\* read it).
C26_RacingSweepsSafe ==
    /\ [](Members(token_pool) \cap Members(active_tokens) = {})
    /\ [][\A i \in Instances :
            (pc[i] = "cleanupRemove" /\ pc'[i] = "cleanupInsert") =>
               \A t \in AnyToken :
                  (InActive(t) /\ ~InActive(t)') => active_tokens[t] <= now]_vars

\* C27: under any interleaving, the tokens a cleanupTokens removes from
\* active_tokens have, at its ZREM, a score <= now, and the tokens it then
\* inserts into the pool are not members of active_tokens with a score > now.
C27_SweepRemovesOnlyExpired ==
    [][\A i \in Instances :
          /\ (pc[i] = "cleanupRemove" /\ pc'[i] = "cleanupInsert") =>
                \A t \in expiredActiveTokens[i] :
                   InActive(t) => active_tokens[t] <= now
          /\ (pc[i] = "cleanupInsert" /\ pc'[i] = "cleanupPurge") =>
                \A t \in expiredActiveTokens[i] :
                   InActive(t) => active_tokens[t] <= now]_vars

\* C28: a store call of cleanupTokens that fails does not stop the manager:
\* after the failure every call slot is idle, so the operations can be called
\* and the timer can run the sweep again.
C28_SweepFailureContained ==
    [][(ret'.op = "cleanupTokens" /\ ret'.threw)
          => \A i \in Instances : pc'[i] = "idle"]_vars

\* C29: when cleanupTokens stops because one of its store calls fails, every
\* token it had read as expired from active_tokens is in exactly one of
\* active_tokens and the pool.
C29_PartialSweepSafe ==
    [][\A i \in Instances :
          ( /\ pc[i] \in {"cleanupRemove", "cleanupInsert", "cleanupPurge"}
            /\ ret'.op = "cleanupTokens" /\ ret'.threw )
          => \A t \in expiredActiveTokens[i] :
                /\ InPool(t)' \/ InActive(t)'
                /\ ~(InPool(t)' /\ InActive(t)')]_vars

\* C30: when generateTokens calls interleave, every call that inserts had
\* read a pool size that left room for its count, its insert adds exactly
\* count members, and the pool exceeds MAX_TOKENS after an insert only when
\* another call inserted after this call read the pool size; such an
\* overshoot by two calls that each fit alone does occur (the witness).
C30_SoftCap ==
    [][\A i \in Instances :
          (pc[i] = "generate" /\ pc'[i] = "idle" /\ ret'.ok) =>
             /\ currentCount[i] + count[i] <= MAX_TOKENS
             /\ Cardinality(Members(token_pool')) =
                   Cardinality(Members(token_pool)) + count[i]
             /\ Cardinality(Members(token_pool')) > MAX_TOKENS
                   => currentCount[i] < Cardinality(Members(token_pool))]_vars

\* C30 witness: a generateTokens call has returned tokens, the pool held at
\* most MAX_TOKENS members before its insert and the call asked for at most
\* MAX_TOKENS, and the pool now holds more than MAX_TOKENS members.
C30_Witness ==
    /\ ret.op = "generateTokens" /\ ret.ok
    /\ Len(ret.tokens) <= MAX_TOKENS
    /\ Cardinality(Members(token_pool)) - Len(ret.tokens) <= MAX_TOKENS
    /\ Cardinality(Members(token_pool)) > MAX_TOKENS

\* C31 (spec invariant I3): the clock only moves forward, and in every
\* reachable state of the free interleaving every pool entry's deadline is at
\* most now + KEEP_ALIVE_LIMIT * 1000 and every lease-table entry's deadline
\* is at most now + TOKEN_LIFETIME * 1000; every score a step writes into a
\* collection is the clock value of that step plus that collection's duration.
C31_DeadlinesFromNow ==
    /\ [](\A t \in AnyToken :
            /\ InPool(t) => token_pool[t] <= now + KEEP_ALIVE_LIMIT * 1000
            /\ InActive(t) => active_tokens[t] <= now + TOKEN_LIFETIME * 1000)
    /\ [][/\ now' >= now
          /\ \A t \in AnyToken :
                /\ (token_pool'[t] # token_pool[t] /\ token_pool'[t] # Absent)
                      => token_pool'[t] = now + KEEP_ALIVE_LIMIT * 1000
                /\ (active_tokens'[t] # active_tokens[t]
                        /\ active_tokens'[t] # Absent)
                      => active_tokens'[t] = now + TOKEN_LIFETIME * 1000]_vars

\* The clock has advanced; one pool entry was written at the current clock
\* value and carries exactly now + KEEP_ALIVE_LIMIT * 1000, while a lease
\* written earlier lies strictly below now + TOKEN_LIFETIME * 1000.
C31_Witness ==
    /\ now > 0
    /\ \E t \in Tokens :
          /\ InPool(t)
          /\ token_pool[t] = now + KEEP_ALIVE_LIMIT * 1000
    /\ \E u \in Tokens :
          /\ InActive(u)
          /\ active_tokens[u] < now + TOKEN_LIFETIME * 1000

\* A store call already decided on that will write t into a sorted set.
PendingWrite(t) ==
    \E j \in Instances :
        \/ /\ pc[j] \in {"assign", "keepAliveActive", "keepAlivePool", "unblock"}
           /\ token[j] = t
        \/ /\ pc[j] \in {"cleanupRemove", "cleanupInsert"}
           /\ t \in expiredActiveTokens[j]

\* An instance stopped between the ZPOPMIN and the ZADD of assignToken and
\* the token it popped is in neither sorted set.
Stranded(t) ==
    /\ \E i \in Instances : pc[i] = "stopped" /\ token[i] = t
    /\ ~InStore(t)

\* C32: a token stranded by an instance that stopped between assignToken's
\* ZPOPMIN and ZADD stays out of circulation.  No later step of any instance
\* puts it into token_pool or active_tokens, assignToken never returns it,
\* and keepAlive and unblockToken called with it return false.
C32_StrandedStaysOut ==
    [][\A t \in Tokens :
          Stranded(t) =>
             /\ Stranded(t)'
             /\ ret'.op = "assignToken" => ret'.tokens # <<t>>
             /\ (ret'.op \in {"keepAlive", "unblockToken"} /\ ret'.arg = t)
                   => ~ret'.ok]_vars

\* What does hold: once no call in flight is about to write the stranded
\* token, it stays stranded, no call starts a write of it, assignToken never
\* returns it, and keepAlive and unblockToken return false for it.
StrandedStaysOutOnceQuiet ==
    [][\A t \in Tokens :
          (Stranded(t) /\ ~PendingWrite(t)) =>
             /\ Stranded(t)' /\ ~PendingWrite(t)'
             /\ ret'.op = "assignToken" => ret'.tokens # <<t>>
             /\ (ret'.op \in {"keepAlive", "unblockToken"} /\ ret'.arg = t)
                   => ~ret'.ok]_vars

\* C33: only generateTokens introduces identifiers.  In every reachable state
\* of the free interleaving every member of token_pool or active_tokens is
\* an identifier a successful generateTokens returned, whatever arguments
\* (never-issued ones included) the other operations were called with; and
\* the set of issued identifiers grows only by what a generateTokens call
\* returns in that step.
C33_OnlyIssueIntroduces ==
    /\ [](Members(token_pool) \cup Members(active_tokens) \subseteq uuids)
    /\ [][uuids' # uuids =>
             /\ ret'.op = "generateTokens"
             /\ ret'.ok
             /\ Range(ret'.tokens) = uuids' \ uuids
             /\ uuids \subseteq uuids']_vars

\* unblockToken has just returned false for an identifier that was never
\* issued, while the pool and the lease table each hold an issued token and
\* the never-issued identifier is in neither.
C33_Witness ==
    /\ ret.op = "unblockToken"
    /\ ret.arg = Unknown
    /\ ~ret.ok
    /\ Unknown \notin uuids
    /\ \E t \in uuids : InPool(t)
    /\ \E u \in uuids : InActive(u)
    /\ ~InStore(Unknown)

\* C34: keepAlive does not check expiry.  With operations run one at a time:
\* keepAlive(t) for a token in active_tokens takes the active branch even
\* when the token's deadline has passed; its ZADD then returns true and sets
\* the deadline to now + TOKEN_LIFETIME * 1000, leaving the pool alone; a
\* sweep that starts while that deadline lies ahead does not list t as
\* expired, and no store call of a sweep touches a lease it did not list.
C34_RenewIgnoresExpiry ==
    [][\A t \in Tokens :
          /\ (/\ pc[1] = "idle"
              /\ pc'[1] \in {"keepAliveActive", "keepAliveCheckPool"}
              /\ token'[1] = t
              /\ InActive(t))
                => pc'[1] = "keepAliveActive"
          /\ (/\ pc[1] = "keepAliveActive"
              /\ pc'[1] = "idle"
              /\ token[1] = t
              /\ InActive(t)
              /\ active_tokens[t] <= now)
                => /\ ret' = Ret("keepAlive", t, TRUE, <<>>, FALSE)
                   /\ active_tokens'[t] = now + TOKEN_LIFETIME * 1000
                   /\ active_tokens'[t] > now
                   /\ token_pool' = token_pool
          /\ (/\ pc[1] = "idle"
              /\ pc'[1] \in {"cleanupRemove", "cleanupPurge"}
              /\ InActive(t)
              /\ active_tokens[t] > now)
                => t \notin expiredActiveTokens'[1]
          /\ (/\ pc[1] \in {"cleanupRemove", "cleanupInsert", "cleanupPurge"}
              /\ InActive(t)
              /\ t \notin expiredActiveTokens[1])
                => /\ active_tokens'[t] = active_tokens[t]
                   /\ ~InPool(t)']_vars

\* keepAlive(t) has read the score of a lease whose deadline has passed and
\* which no sweep has reclaimed, and is about to send its ZADD.
C34_Witness ==
    \E t \in Tokens :
        /\ pc[1] = "keepAliveActive"
        /\ token[1] = t
        /\ InActive(t)
        /\ active_tokens[t] <= now
        /\ ~InPool(t)

====
